---- MODULE Spec2Model ----
(***************************************************************************)
(* Emotion pipeline of the hamster generator: the blend-shape classifier   *)
(* (classifyEmotion), the temporal smoother (updateEmotionSmoothed), the   *)
(* change-suppressing renderer (updateUI), the no-face reset              *)
(* (clearEmotion), and the camera button with the frame loop (predict).    *)
(*                                                                         *)
(* Numbers.  Blend-shape scores are held in tenths (4 is 0.4).  An         *)
(* emotion score is held in units of 1/400, the least common              *)
(* denominator of the pair means (/2), the weights (tenths) and the /4 of  *)
(* the neutral rule, so every score of the source is an integer here and   *)
(* is computed exactly.  The source computes in IEEE-754 doubles: two      *)
(* scores that are equal here can differ there in the last bit.  A         *)
(* confidence is held in units of 1/600 (ConfScale): min(score/1.5, 1).    *)
(***************************************************************************)
EXTENDS Integers, Sequences, FiniteSets, TLC

\* ------------------------------------------------------------------ types

\* type Emotion, in declaration order
Emotion == <<"happy", "sad", "surprised", "angry", "neutral", "excited">>

Emotions == {Emotion[i] : i \in 1..Len(Emotion)}

\* the keys of the scores object literal, in insertion order, which is the
\* order Object.keys and Object.entries walk them in
ScoreKeys == <<"happy", "excited", "surprised", "sad", "angry", "neutral">>

\* the value of currentEmotion before any render and after clearEmotion
null == "null"

\* the value of result before classifyEmotion has returned
NoResult == [emotion |-> null, confidence |-> -1]

\* the blend-shape channels classifyEmotion reads
ChannelNames ==
    { "mouthSmileLeft", "mouthSmileRight", "mouthFrownLeft", "mouthFrownRight",
      "mouthDimpleLeft", "mouthDimpleRight", "mouthPucker", "jawOpen",
      "browOuterUpLeft", "browOuterUpRight", "browInnerUp",
      "browDownLeft", "browDownRight", "eyeWideLeft", "eyeWideRight",
      "cheekSquintLeft", "cheekSquintRight", "noseSneerLeft", "noseSneerRight",
      "mouthShrugUpper", "mouthShrugLower", "eyeSquintLeft", "eyeSquintRight",
      "eyeLookDownLeft", "eyeLookDownRight" }

\* 600 units of confidence are 1.0: bestScore / 1.5, in units of 1/400
ConfScale == 600

\* ------------------------------------------------------------------ state

VARIABLES
    categories,      \* the categories array handed to classifyEmotion
    result,          \* the EmotionResult the last classifyEmotion returned
    classified,      \* history variable: for every categories array
                     \* classified so far, the first result returned for it
                     \* and whether it was classified again
    emotionHistory,  \* const emotionHistory: Emotion[]
    currentEmotion,  \* let currentEmotion: Emotion | null
    ui,              \* what the page shows: status, emotion name, confidence
                     \* percentage, image source, image hidden, active pill
    pc,              \* where predict stands within the frame it is processing
    observed,        \* history variable: every label passed to
                     \* updateEmotionSmoothed so far, in call order
    dominant,        \* history variable: the label the last
                     \* updateEmotionSmoothed passed to updateUI, or null
    ops,             \* history variable: the last two smoother operations
    run,             \* history variable: how many times in a row the last
                     \* label was observed, with no clearEmotion in between
    rendered,        \* history variable: how many times the last operation
                     \* rendered a label (ran updateUI past its early return)
    sinkLast,        \* history variable: the last label rendered since the
                     \* last clearEmotion, or null
    faceLandmarker,  \* let faceLandmarker: whether init() has assigned it
    webcamRunning,   \* let webcamRunning
    lastVideoTime,   \* let lastVideoTime
    video,           \* the video element: srcObject, whether the data of the
                     \* source is loaded, currentTime
    getUserMedia,    \* how many getUserMedia promises are pending
    loadeddata,      \* how many once-listeners for loadeddata are registered
    animationFrames, \* how many requestAnimationFrame(predict) callbacks
                     \* are scheduled
    tick             \* history variable: what the last predict call did, and
                     \* a bit that every predict call flips

loopVars == <<faceLandmarker, webcamRunning, lastVideoTime, video,
              getUserMedia, loadeddata, animationFrames, tick>>

vars == <<categories, result, classified, emotionHistory, currentEmotion, ui, pc,
          observed, dominant, ops, run, rendered, sinkLast, loopVars>>

classifierVars == <<categories, result, classified>>

smootherVars == <<emotionHistory, currentEmotion, ui,
                  observed, dominant, ops, run, rendered, sinkLast>>

\* ------------------------------------------------------------ classifier

\* s[b.categoryName] = b.score for every entry, a later entry overwriting an
\* earlier one of the same name
RECURSIVE Lookup(_, _)
Lookup(blendShapes, n) ==
    IF n = 0 THEN [c \in {} |-> 0]
    ELSE LET s == Lookup(blendShapes, n - 1)
             b == blendShapes[n]
         IN  [c \in DOMAIN s \cup {b.categoryName} |->
                 IF c = b.categoryName THEN b.score ELSE s[c]]

\* get with 1.0 for a missing channel
get_DefaultOne(s, name) == IF name \in DOMAIN s THEN s[name] ELSE 10

\* get = (name) => s[name] ?? 0
get(s, name) == IF name \in DOMAIN s THEN s[name] ELSE 0

\* the left channel read in place of the mean of the pair
Pair_LeftOnly(s, a, b) == 2 * get(s, a)

\* (get(a) + get(b)) / 2, kept doubled: the sum of the pair, in tenths
Pair(s, a, b) == get(s, a) + get(s, b)

\* a channel read alone, doubled to the unit of Pair
Single(s, a) == 2 * get(s, a)

\* the scores with the sad row lacking the constants of (1.0 - dimple) and
\* (1.0 - pucker)
RawScores_SadFromZero(s) ==
    LET smile       == Pair(s, "mouthSmileLeft", "mouthSmileRight")
        frown       == Pair(s, "mouthFrownLeft", "mouthFrownRight")
        dimple      == Pair(s, "mouthDimpleLeft", "mouthDimpleRight")
        pucker      == Single(s, "mouthPucker")
        jawOpen     == Single(s, "jawOpen")
        browUp      == Pair(s, "browOuterUpLeft", "browOuterUpRight")
        browInner   == Single(s, "browInnerUp")
        browDown    == Pair(s, "browDownLeft", "browDownRight")
        eyeWide     == Pair(s, "eyeWideLeft", "eyeWideRight")
        cheekSquint == Pair(s, "cheekSquintLeft", "cheekSquintRight")
        sneer       == Pair(s, "noseSneerLeft", "noseSneerRight")
        mouthShrug  == Pair(s, "mouthShrugUpper", "mouthShrugLower")
        eyeSquint   == Pair(s, "eyeSquintLeft", "eyeSquintRight")
        eyeLookDown == Pair(s, "eyeLookDownLeft", "eyeLookDownRight")
    IN  [ happy     |-> 30 * smile + 10 * cheekSquint,
          excited   |-> 20 * smile + 16 * eyeWide + 12 * browUp + 8 * jawOpen,
          surprised |-> 28 * jawOpen + 20 * eyeWide + 12 * browUp + 8 * browInner,
          sad       |-> 28 * frown + 14 * browInner
                          - 4 * dimple - 4 * pucker,
          angry     |-> 24 * eyeSquint + 20 * mouthShrug + 14 * eyeLookDown
                          + 10 * browDown + 10 * sneer - 10 * smile,
          neutral   |-> 440 - 5 * (smile + frown + jawOpen + browUp + browDown
                                     + eyeWide + eyeSquint + mouthShrug) ]

\* the scores object before the clamp, in units of 1/400.  A weight w (in
\* tenths) times an aggregate (a doubled value in tenths) is 2 * w * value.
RawScores(s) ==
    LET smile       == Pair(s, "mouthSmileLeft", "mouthSmileRight")
        frown       == Pair(s, "mouthFrownLeft", "mouthFrownRight")
        dimple      == Pair(s, "mouthDimpleLeft", "mouthDimpleRight")
        pucker      == Single(s, "mouthPucker")
        jawOpen     == Single(s, "jawOpen")
        browUp      == Pair(s, "browOuterUpLeft", "browOuterUpRight")
        browInner   == Single(s, "browInnerUp")
        browDown    == Pair(s, "browDownLeft", "browDownRight")
        eyeWide     == Pair(s, "eyeWideLeft", "eyeWideRight")
        cheekSquint == Pair(s, "cheekSquintLeft", "cheekSquintRight")
        sneer       == Pair(s, "noseSneerLeft", "noseSneerRight")
        mouthShrug  == Pair(s, "mouthShrugUpper", "mouthShrugLower")
        eyeSquint   == Pair(s, "eyeSquintLeft", "eyeSquintRight")
        eyeLookDown == Pair(s, "eyeLookDownLeft", "eyeLookDownRight")
    IN  [ happy     |-> 30 * smile + 10 * cheekSquint,
          excited   |-> 20 * smile + 16 * eyeWide + 12 * browUp + 8 * jawOpen,
          surprised |-> 28 * jawOpen + 20 * eyeWide + 12 * browUp + 8 * browInner,
          sad       |-> 28 * frown + 14 * browInner
                          + 4 * (20 - dimple) + 4 * (20 - pucker),
          angry     |-> 24 * eyeSquint + 20 * mouthShrug + 14 * eyeLookDown
                          + 10 * browDown + 10 * sneer - 10 * smile,
          neutral   |-> 440 - 5 * (smile + frown + jawOpen + browUp + browDown
                                     + eyeWide + eyeSquint + mouthShrug) ]

\* if (scores[key] < 0) scores[key] = 0
Clamp(scores) == [k \in DOMAIN scores |-> IF scores[k] < 0 THEN 0 ELSE scores[k]]

\* the winner loop walking the emotions in the order of type Emotion
RECURSIVE FindWinner_EmotionOrder(_, _)
FindWinner_EmotionOrder(scores, n) ==
    IF n = 0 THEN [best |-> "neutral", bestScore |-> -1]
    ELSE LET w       == FindWinner_EmotionOrder(scores, n - 1)
             emotion == Emotion[n]
             score   == scores[emotion]
         IN  IF score > w.bestScore
             THEN [best |-> emotion, bestScore |-> score]
             ELSE w

\* the winner loop with best and bestScore kept from the call before
RECURSIVE FindWinner_Stale(_, _)
FindWinner_Stale(scores, n) ==
    IF n = 0
    THEN IF result = NoResult
         THEN [best |-> "neutral", bestScore |-> -1]
         ELSE [best |-> result.emotion, bestScore |-> result.confidence]
    ELSE LET w       == FindWinner_Stale(scores, n - 1)
             emotion == ScoreKeys[n]
             score   == scores[emotion]
         IN  IF score > w.bestScore
             THEN [best |-> emotion, bestScore |-> score]
             ELSE w

\* the winner loop over the first n entries of Object.entries(scores), from
\* best = "neutral", bestScore = -1
RECURSIVE FindWinner(_, _)
FindWinner(scores, n) ==
    IF n = 0 THEN [best |-> "neutral", bestScore |-> -1]
    ELSE LET w       == FindWinner(scores, n - 1)
             emotion == ScoreKeys[n]
             score   == scores[emotion]
         IN  IF score > w.bestScore
             THEN [best |-> emotion, bestScore |-> score]
             ELSE w

\* the confidence without Math.min: bestScore / 1.5
Confidence_NoCap(bestScore) == bestScore

\* Math.min(bestScore / 1.5, 1), in units of 1/600
Confidence(bestScore) == IF bestScore < ConfScale THEN bestScore ELSE ConfScale

classifyEmotion(blendShapes) ==
    LET s      == Lookup(blendShapes, Len(blendShapes))
        scores == Clamp(RawScores(s))
        w      == FindWinner(scores, Len(ScoreKeys))
    IN  [emotion |-> w.best, confidence |-> Confidence(w.bestScore)]

\* ------------------------------------------------------- the page

\* const HISTORY_SIZE = 8
HISTORY_SIZE == 8

\* EMOTION_IMAGES[emotion]
EMOTION_IMAGES(emotion) == "./images/expressions/" \o emotion \o ".jpeg"

\* the page before the first render: what clearEmotion shows, and the status
\* the loadeddata handler sets when the camera starts
InitUI ==
    [ status |-> "detecting...", name |-> "-", pct |-> 0,
      imgSrc |-> "", imgHidden |-> TRUE, pill |-> null ]

\* the video element with no source
NoVideo == [srcObject |-> null, loaded |-> FALSE, currentTime |-> 0]

\* the module state of the camera and the frame loop, init() pending
InitLoop ==
    /\ faceLandmarker = FALSE
    /\ webcamRunning = FALSE
    /\ lastVideoTime = -1
    /\ video = NoVideo
    /\ getUserMedia = 0
    /\ loadeddata = 0
    /\ animationFrames = 0
    /\ tick = [bit |-> 0, did |-> "none"]

InitSmoother ==
    /\ emotionHistory = <<>>
    /\ currentEmotion = null
    /\ ui = InitUI
    /\ observed = <<>>
    /\ dominant = null
    /\ ops = <<>>
    /\ run = 0
    /\ rendered = 0
    /\ sinkLast = null

\* ---------------------------------------------------------------- smoother

\* Push with pop() in place of shift(): the newest entry is evicted
Push_EvictNewest(history, emotion) ==
    LET pushed == Append(history, emotion)
    IN  IF Len(pushed) > HISTORY_SIZE THEN SubSeq(pushed, 1, HISTORY_SIZE) ELSE pushed

\* Push without the length test: nothing is ever evicted
Push_NoEvict(history, emotion) == Append(history, emotion)

\* emotionHistory.push(emotion);
\* if (emotionHistory.length > HISTORY_SIZE) emotionHistory.shift()
Push(history, emotion) ==
    LET pushed == Append(history, emotion)
    IN  IF Len(pushed) > HISTORY_SIZE THEN Tail(pushed) ELSE pushed

\* freq[e] after the counting loop
Freq(history, e) == Cardinality({i \in DOMAIN history : history[i] = e})

\* the keys of freq in insertion order: each label of the history once, in
\* the order of its first occurrence
RECURSIVE FreqKeys(_, _)
FreqKeys(history, n) ==
    IF n = 0 THEN <<>>
    ELSE LET keys == FreqKeys(history, n - 1)
         IN  IF \E i \in DOMAIN keys : keys[i] = history[n]
             THEN keys
             ELSE Append(keys, history[n])

\* PickDominant with count >= max: among ties the last key wins
RECURSIVE PickDominant_LastTie(_, _, _, _)
PickDominant_LastTie(history, keys, emotion, n) ==
    IF n = 0 THEN [dominant |-> emotion, max |-> 0]
    ELSE LET d     == PickDominant_LastTie(history, keys, emotion, n - 1)
             e     == keys[n]
             count == Freq(history, e)
         IN  IF count >= d.max
             THEN [dominant |-> e, max |-> count]
             ELSE d

\* the "pick most frequent" loop over the first n entries of
\* Object.entries(freq), from dominant = emotion, max = 0
RECURSIVE PickDominant(_, _, _, _)
PickDominant(history, keys, emotion, n) ==
    IF n = 0 THEN [dominant |-> emotion, max |-> 0]
    ELSE LET d     == PickDominant(history, keys, emotion, n - 1)
             e     == keys[n]
             count == Freq(history, e)
         IN  IF count > d.max
             THEN [dominant |-> e, max |-> count]
             ELSE d

\* the label updateEmotionSmoothed passes to updateUI, from the history after
\* the push
Dominant(history, emotion) ==
    LET keys == FreqKeys(history, Len(history))
    IN  PickDominant(history, keys, emotion, Len(keys)).dominant

\* Math.round(confidence * 100), confidence in units of 1/600
Pct(confidence) == (confidence + 3) \div 6

\* updateUI, past its early return
Render(emotion, confidence) ==
    [ status |-> "detected: " \o emotion, name |-> emotion,
      pct |-> Pct(confidence), imgSrc |-> EMOTION_IMAGES(emotion),
      imgHidden |-> FALSE, pill |-> emotion ]

\* updateUI without its early return: every observe renders
updateUI_NoSuppress(emotion, confidence) ==
    /\ currentEmotion' = emotion
    /\ ui' = Render(emotion, confidence)
    /\ rendered' = 1
    /\ sinkLast' = emotion

updateUI(emotion, confidence) ==
    IF emotion = currentEmotion
    THEN /\ UNCHANGED <<currentEmotion, ui, sinkLast>>
         /\ rendered' = 0
    ELSE /\ currentEmotion' = emotion
         /\ ui' = Render(emotion, confidence)
         /\ rendered' = 1
         /\ sinkLast' = emotion

\* updateEmotionSmoothed passing the raw label of the frame to updateUI
updateEmotionSmoothed_Unsmoothed(emotion, confidence) ==
    LET history == Push(emotionHistory, emotion)
        d       == Dominant(history, emotion)
    IN  /\ emotionHistory' = history
        /\ dominant' = d
        /\ updateUI(emotion, confidence)
        /\ observed' = Append(observed, emotion)
        /\ ops' = IF ops = <<>> THEN <<"observe">> ELSE <<ops[Len(ops)], "observe">>
        /\ run' = IF run > 0 /\ observed[Len(observed)] = emotion
                  THEN run + 1 ELSE 1

updateEmotionSmoothed(emotion, confidence) ==
    LET history == Push(emotionHistory, emotion)
        d       == Dominant(history, emotion)
    IN  /\ emotionHistory' = history
        /\ dominant' = d
        /\ updateUI(d, confidence)
        /\ observed' = Append(observed, emotion)
        /\ ops' = IF ops = <<>> THEN <<"observe">> ELSE <<ops[Len(ops)], "observe">>
        /\ run' = IF run > 0 /\ observed[Len(observed)] = emotion
                  THEN run + 1 ELSE 1

\* setStatus(msg)
setStatus(page, msg) == [page EXCEPT !.status = msg]

\* what clearEmotion leaves on the page: the image keeps its source and is
\* hidden, the status is not touched
ClearedPage(page) ==
    [page EXCEPT !.name = "-", !.pct = 0, !.imgHidden = TRUE, !.pill = null]

\* clearEmotion, called by predict's no-face branch after
\* setStatus("no face detected")
clearEmotion ==
    /\ currentEmotion' = null
    /\ ui' = ClearedPage(setStatus(ui, "no face detected"))
    /\ ops' = IF ops = <<>> THEN <<"reset">> ELSE <<ops[Len(ops)], "reset">>
    /\ run' = 0
    /\ rendered' = 0
    /\ sinkLast' = null
    /\ UNCHANGED <<emotionHistory, observed, dominant>>

\* ------------------------------------------- the smoother driven directly

\* the labels and confidences observe is called with
ObserveLabels == {"happy", "sad", "neutral"}

\* 440/600 is the confidence of a neutral face, 600/600 is 1.0
ObserveConfidences == {440, 600}

\* observe calls per behaviour
MaxObs == 9

SmootherInit ==
    /\ InitSmoother
    /\ categories = <<>>
    /\ result = NoResult
    /\ classified = <<>>
    /\ pc = "idle"
    /\ InitLoop

\* observe(e): a frame with a face whose raw classification is (e, c), e
\* among labels, while fewer than bound observe calls were made
ObserveAmong(labels, bound) ==
    /\ Len(observed) < bound
    /\ \E e \in labels, c \in ObserveConfidences :
           updateEmotionSmoothed(e, c)
    /\ UNCHANGED <<classifierVars, pc, loopVars>>

Observe == ObserveAmong(ObserveLabels, MaxObs)

\* reset(): a frame with no face
Reset ==
    /\ clearEmotion
    /\ UNCHANGED <<classifierVars, pc, loopVars>>

SmootherNext == Observe \/ Reset

SpecSmoother == SmootherInit /\ [][SmootherNext]_vars

\* the smoother driven with two labels, for longer runs of one label
RepeatLabels == {"happy", "sad"}

\* observe calls per behaviour of SpecRepeat
MaxRepeatObs == 12

ObserveRepeat == ObserveAmong(RepeatLabels, MaxRepeatObs)

RepeatNext == ObserveRepeat \/ Reset

SpecRepeat == SmootherInit /\ [][RepeatNext]_vars

\* ----------------------------------------- the classifier driven directly

\* a categoryName classifyEmotion never reads
OtherChannel == "tongueOut"

\* the order in which a categories array lists the channels
ChannelOrder ==
    << "browDownLeft", "browDownRight", "browInnerUp", "browOuterUpLeft",
       "browOuterUpRight", "cheekSquintLeft", "cheekSquintRight",
       "eyeLookDownLeft", "eyeLookDownRight", "eyeSquintLeft", "eyeSquintRight",
       "eyeWideLeft", "eyeWideRight", "jawOpen", "mouthDimpleLeft",
       "mouthDimpleRight", "mouthFrownLeft", "mouthFrownRight", "mouthPucker",
       "mouthShrugLower", "mouthShrugUpper", "mouthSmileLeft", "mouthSmileRight",
       "noseSneerLeft", "noseSneerRight", OtherChannel >>

\* the channel names an input snapshot is drawn over: ChannelOrder lists
\* each of them once
InputChannels == ChannelNames \cup {OtherChannel}

\* the scores a channel of an input snapshot takes, in tenths: below 0, 0,
\* within (0, 1], above 1
ScoreValues == {-10, 0, 4, 10, 20}

\* channels present in an input snapshot of the grid
MaxPresent == 2

\* a smile of 0.9 on both sides, all else 0
SmileScenario == ("mouthSmileLeft" :> 9) @@ ("mouthSmileRight" :> 9)

\* an open jaw with wide eyes and raised brows
SurpriseScenario ==
    ("jawOpen" :> 8) @@ ("eyeWideLeft" :> 7) @@ ("eyeWideRight" :> 7)
        @@ ("browOuterUpLeft" :> 5) @@ ("browOuterUpRight" :> 5)
        @@ ("browInnerUp" :> 3)

\* input snapshots beside the grid: two in-range ties of the greatest score
\* (excited = neutral = 0.8, surprised = sad = 0.96), the snapshot that
\* lists every channel with score 0, the smile and the surprise
Scenarios ==
    { ("mouthSmileLeft" :> 10) @@ ("mouthFrownLeft" :> 4)
                               @@ ("browOuterUpLeft" :> 10),
      ("mouthFrownLeft" :> 8) @@ ("jawOpen" :> 6) @@ ("browOuterUpLeft" :> 4),
      [c \in InputChannels |-> 0],
      SmileScenario,
      SurpriseScenario }

\* the sets of at most n input channels
RECURSIVE ChannelSets(_)
ChannelSets(n) ==
    IF n = 0 THEN {{}}
    ELSE LET smaller == ChannelSets(n - 1)
         IN  smaller \cup {S \cup {c} : S \in smaller, c \in InputChannels}

\* the categories array that lists the channels of f, in ChannelOrder
RECURSIVE CategoriesOf(_, _)
CategoriesOf(f, n) ==
    IF n = 0 THEN <<>>
    ELSE LET rest == CategoriesOf(f, n - 1)
             name == ChannelOrder[n]
         IN  IF name \in DOMAIN f
             THEN Append(rest, [categoryName |-> name, score |-> f[name]])
             ELSE rest

ClassifyInit ==
    /\ InitSmoother
    /\ \/ \E f \in Scenarios :
              categories = CategoriesOf(f, Len(ChannelOrder))
       \/ \E S \in ChannelSets(MaxPresent) :
              \E f \in [S -> ScoreValues] :
                  categories = CategoriesOf(f, Len(ChannelOrder))
    /\ result = NoResult
    /\ classified = <<>>
    /\ pc = "classify"
    /\ InitLoop

\* const { emotion, confidence } = classifyEmotion(categories), after which
\* predict stands at next
ClassifyThen(next) ==
    /\ pc = "classify"
    /\ result' = classifyEmotion(categories)
    /\ classified' =
           [a \in DOMAIN classified \cup {categories} |->
               IF a \in DOMAIN classified
               THEN IF a = categories
                    THEN [classified[a] EXCEPT !.again = TRUE]
                    ELSE classified[a]
               ELSE [result |-> result', again |-> FALSE]]
    /\ pc' = next
    /\ UNCHANGED <<categories, smootherVars, loopVars>>

Classify == ClassifyThen("classified")

ClassifyNext == Classify

SpecClassify == ClassifyInit /\ [][ClassifyNext]_vars

\* ------------------------------------------------------ the frame pipeline

\* the snapshots detectForVideo returns for a frame with a face: a neutral
\* face, a full smile (happy, confidence 1.0), a half smile (happy,
\* confidence 0.7), a frown (sad)
FrameSnapshots ==
    { <<>>,
      ("mouthSmileLeft" :> 10) @@ ("mouthSmileRight" :> 10),
      ("mouthSmileLeft" :> 10) @@ ("mouthSmileRight" :> 4),
      ("mouthFrownLeft" :> 10) @@ ("mouthFrownRight" :> 10) }

\* frames with a face per behaviour
MaxFrames == 5

Init == SmootherInit

\* predict on a new video frame in which detectForVideo finds a face with
\* blend shapes
FaceFrame ==
    /\ pc = "idle"
    /\ Len(observed) < MaxFrames
    /\ \E f \in FrameSnapshots :
           categories' = CategoriesOf(f, Len(ChannelOrder))
    /\ pc' = "classify"
    /\ UNCHANGED <<result, classified, smootherVars, loopVars>>

\* const { emotion, confidence } = classifyEmotion(...)
ClassifyFrame == ClassifyThen("smooth")

\* updateEmotionSmoothed(emotion, confidence), which ends the frame
SmoothFrame ==
    /\ pc = "smooth"
    /\ updateEmotionSmoothed(result.emotion, result.confidence)
    /\ pc' = "idle"
    /\ UNCHANGED <<classifierVars, loopVars>>

\* predict on a new video frame in which detectForVideo finds no face
NoFaceFrame ==
    /\ pc = "idle"
    /\ clearEmotion
    /\ UNCHANGED <<classifierVars, pc, loopVars>>

Next == FaceFrame \/ ClassifyFrame \/ SmoothFrame \/ NoFaceFrame

Spec == Init /\ [][Next]_vars

\* ---------------------------------------------- the camera and the frame loop

\* the snapshots detectForVideo returns in the loop: a neutral face and a
\* full smile
LoopSnapshots ==
    { <<>>, ("mouthSmileLeft" :> 10) @@ ("mouthSmileRight" :> 10) }

\* frames with a face per behaviour of SpecLoop
MaxLoopFrames == 3

\* the values video.currentTime takes: 0 .. MaxTime
MaxTime == 2

\* getUserMedia promises and loadeddata listeners outstanding together
MaxStarts == 2

\* requestAnimationFrame(predict) callbacks scheduled together
MaxCallbacks == 2

LoopInit == SmootherInit

\* what a predict call records: it flips the bit
Ticked(did) == [bit |-> 1 - tick.bit, did |-> did]

\* init() resolves: the model is loaded and the button enabled
init ==
    /\ ~faceLandmarker
    /\ faceLandmarker' = TRUE
    /\ ui' = setStatus(ui, "model ready - hit Start Camera")
    /\ UNCHANGED <<classifierVars, pc, emotionHistory, currentEmotion,
                   observed, dominant, ops, run, rendered, sinkLast,
                   webcamRunning, lastVideoTime, video, getUserMedia,
                   loadeddata, animationFrames, tick>>

\* the click handler up to its return or its await: nothing without the
\* model, Stop while webcamRunning, otherwise the call of getUserMedia
click ==
    /\ faceLandmarker
    /\ IF webcamRunning
       THEN /\ webcamRunning' = FALSE
            /\ video' = NoVideo
            /\ ui' = setStatus(ui, "camera stopped")
            /\ UNCHANGED getUserMedia
       ELSE /\ getUserMedia + loadeddata < MaxStarts
            /\ getUserMedia' = getUserMedia + 1
            /\ UNCHANGED <<webcamRunning, video, ui>>
    /\ UNCHANGED <<classifierVars, pc, emotionHistory, currentEmotion,
                   observed, dominant, ops, run, rendered, sinkLast,
                   faceLandmarker, lastVideoTime, loadeddata,
                   animationFrames, tick>>

\* getUserMedia resolves: the click handler resumes, sets video.srcObject
\* and registers its loadeddata listener
streamGranted ==
    /\ getUserMedia > 0
    /\ getUserMedia' = getUserMedia - 1
    /\ video' = [srcObject |-> "stream", loaded |-> FALSE, currentTime |-> 0]
    /\ loadeddata' = loadeddata + 1
    /\ UNCHANGED <<classifierVars, pc, smootherVars, faceLandmarker,
                   webcamRunning, lastVideoTime, animationFrames, tick>>

\* getUserMedia rejects: the click handler resumes in its catch
streamDenied ==
    /\ getUserMedia > 0
    /\ getUserMedia' = getUserMedia - 1
    /\ ui' = setStatus(ui, "camera access denied")
    /\ UNCHANGED <<classifierVars, pc, emotionHistory, currentEmotion,
                   observed, dominant, ops, run, rendered, sinkLast,
                   faceLandmarker, webcamRunning, lastVideoTime, video,
                   loadeddata, animationFrames, tick>>

\* the video fires loadeddata: every registered listener runs once, sets
\* webcamRunning and requests an animation frame for predict
onLoadedData ==
    /\ video.srcObject # null
    /\ ~video.loaded
    /\ loadeddata > 0
    /\ animationFrames + loadeddata <= MaxCallbacks
    /\ video' = [video EXCEPT !.loaded = TRUE]
    /\ webcamRunning' = TRUE
    /\ ui' = setStatus(ui, "detecting...")
    /\ animationFrames' = animationFrames + loadeddata
    /\ loadeddata' = 0
    /\ UNCHANGED <<classifierVars, pc, emotionHistory, currentEmotion,
                   observed, dominant, ops, run, rendered, sinkLast,
                   faceLandmarker, lastVideoTime, getUserMedia, tick>>

\* the video shows its next frame: video.currentTime advances
videoFrame ==
    /\ video.loaded
    /\ video.currentTime < MaxTime
    /\ video' = [video EXCEPT !.currentTime = @ + 1]
    /\ UNCHANGED <<classifierVars, pc, smootherVars, faceLandmarker,
                   webcamRunning, lastVideoTime, getUserMedia, loadeddata,
                   animationFrames, tick>>

\* predict's work on a frame: detectForVideo finds a face, whose blend
\* shapes are classified and smoothed, or finds none.  With
\* outputFaceBlendshapes: true a face comes with its blend shapes.
detectAndSmooth ==
    \/ /\ Len(observed) < MaxLoopFrames
       /\ \E f \in LoopSnapshots :
              LET r == classifyEmotion(CategoriesOf(f, Len(ChannelOrder)))
              IN  updateEmotionSmoothed(r.emotion, r.confidence)
       /\ tick' = Ticked("observe")
    \/ /\ clearEmotion
       /\ tick' = Ticked("reset")

\* predict's return while the camera is stopped: no frame is requested
returnStopped ==
    /\ animationFrames' = animationFrames - 1
    /\ tick' = Ticked("stopped")
    /\ UNCHANGED <<smootherVars, lastVideoTime>>

\* predict on a frame it has processed: only the next frame is requested
skipFrame ==
    /\ tick' = Ticked("same")
    /\ UNCHANGED <<smootherVars, lastVideoTime, animationFrames>>

\* predict without its first line
predict_NoGuard ==
    /\ animationFrames > 0
    /\ IF lastVideoTime # video.currentTime
       THEN /\ lastVideoTime' = video.currentTime
            /\ detectAndSmooth
            /\ UNCHANGED animationFrames
       ELSE skipFrame
    /\ UNCHANGED <<classifierVars, pc, faceLandmarker, webcamRunning, video,
                   getUserMedia, loadeddata>>

\* predict without the comparison of lastVideoTime with video.currentTime
predict_EveryTick ==
    /\ animationFrames > 0
    /\ IF ~webcamRunning
       THEN returnStopped
       ELSE /\ lastVideoTime' = video.currentTime
            /\ detectAndSmooth
            /\ UNCHANGED animationFrames
    /\ UNCHANGED <<classifierVars, pc, faceLandmarker, webcamRunning, video,
                   getUserMedia, loadeddata>>

\* an animation frame runs predict, which requests the next one unless the
\* camera is stopped
predict ==
    /\ animationFrames > 0
    /\ IF ~webcamRunning
       THEN returnStopped
       ELSE IF lastVideoTime # video.currentTime
            THEN /\ lastVideoTime' = video.currentTime
                 /\ detectAndSmooth
                 /\ UNCHANGED animationFrames
            ELSE skipFrame
    /\ UNCHANGED <<classifierVars, pc, faceLandmarker, webcamRunning, video,
                   getUserMedia, loadeddata>>

LoopNext ==
    \/ init
    \/ click
    \/ streamGranted
    \/ streamDenied
    \/ onLoadedData
    \/ videoFrame
    \/ predict

SpecLoop == LoopInit /\ [][LoopNext]_vars

\* ------------------------------------------------- claims on the smoother

LastOp == IF ops = <<>> THEN "none" ELSE ops[Len(ops)]

LastObserved == observed[Len(observed)]

\* the last n entries of seq
LastN(seq, n) == SubSeq(seq, Len(seq) - n + 1, Len(seq))

Min(a, b) == IF a < b THEN a ELSE b

\* the index of the first occurrence of e in history
FirstIndex(history, e) ==
    CHOOSE i \in DOMAIN history :
        history[i] = e /\ \A j \in 1..(i - 1) : history[j] # e

\* C1 (as claimed): right after clearEmotion the emotion history is empty and
\* the display state is none, and the single observe(e) that follows a
\* clearEmotion produces dominant = e.
C1_ResetIsFullDiscontinuity ==
    /\ LastOp = "reset" => (emotionHistory = <<>> /\ currentEmotion = null)
    /\ ops = <<"reset", "observe">> => dominant = LastObserved

\* C2: the emotion history never holds more than HISTORY_SIZE entries, and
\* it is exactly the most recent min(count, HISTORY_SIZE) of the labels
\* observed so far, in arrival order (count: the observe calls made so far).
C2_HistoryIsRecentWindow ==
    /\ Len(emotionHistory) <= HISTORY_SIZE
    /\ emotionHistory = LastN(observed, Min(Len(observed), HISTORY_SIZE))

\* an eviction has happened, with a clearEmotion before the last observe
C2_Witness ==
    /\ Len(observed) > HISTORY_SIZE
    /\ observed[1] # emotionHistory[1]
    /\ ops = <<"reset", "observe">>

\* C3: once the same label has been observed more than HISTORY_SIZE times in
\* a row with no clearEmotion in between, the history holds exactly
\* HISTORY_SIZE entries and the dominant label of the last observe is that
\* label.
C3_RepeatedLabelFillsHistory ==
    run > HISTORY_SIZE =>
        /\ Len(emotionHistory) = HISTORY_SIZE
        /\ dominant = LastObserved

\* a run longer than HISTORY_SIZE + 1 that started from a state whose
\* history held the other label and whose display state was the other label
C3_Witness ==
    /\ run > HISTORY_SIZE + 1
    /\ Len(observed) > run + 1
    /\ observed[Len(observed) - run] # LastObserved
    /\ observed[Len(observed) - run - 1] # LastObserved

\* C4: the label an observe returns has maximal frequency in the history
\* after the push and eviction, and among the labels of maximal frequency it
\* is the one that occurs first in the history; the history
\* [happy,happy,sad,happy,sad,sad,sad,happy] yields happy.
C4_DominantIsEarliestMostFrequent ==
    observed # <<>> =>
        /\ \A e \in Emotions :
               Freq(emotionHistory, e) <= Freq(emotionHistory, dominant)
        /\ \A e \in Emotions \ {dominant} :
               Freq(emotionHistory, e) = Freq(emotionHistory, dominant)
                   => FirstIndex(emotionHistory, dominant)
                          < FirstIndex(emotionHistory, e)
        /\ emotionHistory = <<"happy", "happy", "sad", "happy",
                              "sad", "sad", "sad", "happy">>
               => dominant = "happy"

\* the history of the scenario, just observed
C4_Witness ==
    /\ emotionHistory = <<"happy", "happy", "sad", "happy",
                          "sad", "sad", "sad", "happy">>
    /\ LastOp = "observe"
    /\ dominant = "happy"

\* C5: an observe whose smoothed label equals the display state leaves the
\* display state and the page unchanged and renders nothing; an observe whose
\* smoothed label differs sets the display state to it and renders it once,
\* and the label rendered is never the one rendered last since the last
\* clearEmotion.
C5_ChangeSuppression ==
    [][observed' # observed =>
          IF dominant' = currentEmotion
          THEN /\ currentEmotion' = currentEmotion
               /\ ui' = ui
               /\ rendered' = 0
          ELSE /\ currentEmotion' = dominant'
               /\ ui'.name = dominant'
               /\ rendered' = 1
               /\ dominant' # sinkLast]_vars

\* an observe of a label other than the displayed one was suppressed
C5_Witness ==
    /\ LastOp = "observe"
    /\ rendered = 0
    /\ currentEmotion # null
    /\ LastObserved # currentEmotion

\* ----------------------------------------------- claims on the classifier

\* the index of e in the sequence order
IndexIn(order, e) == CHOOSE i \in DOMAIN order : order[i] = e

\* the clamped scores of the snapshot in categories
ClampedScores == Clamp(RawScores(Lookup(categories, Len(categories))))

\* the emotions whose score is the greatest of scores
GreatestOf(scores) ==
    {e \in Emotions : \A o \in Emotions : scores[o] <= scores[e]}

\* the emotions whose clamped score is the greatest
Greatest == LET scores == ClampedScores IN GreatestOf(scores)

\* e is an element of S and the first of them in the sequence order
FirstIn(order, S, e) ==
    /\ e \in S
    /\ \A i \in DOMAIN order :
           order[i] \in S => IndexIn(order, e) <= i

\* the categories array a, entry i dropped
Without(a, i) == SubSeq(a, 1, i - 1) \o SubSeq(a, i + 1, Len(a))

\* the categories array a, the score of entry i set to v
WithScore(a, i, v) == [a EXCEPT ![i].score = v]

\* v clamped into [0, 1], in tenths
Clamped(v) == IF v < 0 THEN 0 ELSE IF v > 10 THEN 10 ELSE v

\* C6: the confidence classifyEmotion returns is at least 0 and at most 1:
\* the winning score is not negative after the clamp and the confidence is
\* min(winningScore / 1.5, 1).
C6_ConfidenceInUnitInterval ==
    pc = "classified" =>
        LET winningScore == ClampedScores[result.emotion]
        IN  /\ 0 <= result.confidence /\ result.confidence <= ConfScale
            /\ winningScore >= 0
            /\ result.confidence = Min(winningScore, ConfScale)

\* a snapshot with a score above 1 whose winning score exceeds 1.5, and is
\* capped
C6_Witness ==
    /\ pc = "classified"
    /\ \E i \in DOMAIN categories : categories[i].score > 10
    /\ ClampedScores[result.emotion] > ConfScale
    /\ result.confidence = ConfScale

\* C7 (as claimed): classifyEmotion returns an emotion of greatest clamped
\* score, the first of them in the order of type Emotion: happy, sad,
\* surprised, angry, neutral, excited.
C7_TiesByEmotionOrder ==
    pc = "classified" =>
        LET greatest == Greatest
        IN  FirstIn(Emotion, greatest, result.emotion)

\* C7 (amended): classifyEmotion returns an emotion of greatest clamped
\* score, the first of them in the order of the scores table: happy,
\* excited, surprised, sad, angry, neutral.
C7_TiesByScoreKeys ==
    pc = "classified" =>
        LET greatest == Greatest
        IN  FirstIn(ScoreKeys, greatest, result.emotion)

\* excited and neutral share the greatest score, all scores in range, and
\* excited is returned
C7_Witness ==
    /\ pc = "classified"
    /\ Greatest = {"excited", "neutral"}
    /\ \A i \in DOMAIN categories :
           categories[i].score >= 0 /\ categories[i].score <= 10
    /\ result.emotion = "excited"

\* C8: a snapshot that is empty or whose channels all score 0 is classified
\* neutral with winning score 1.1 and confidence 1.1 / 1.5, and a snapshot
\* that lists a channel with score 0 is classified like the snapshot without
\* that channel.
C8_ZeroSnapshotIsNeutral ==
    pc = "classified" =>
        /\ (\A i \in DOMAIN categories : categories[i].score = 0) =>
               /\ result = [emotion |-> "neutral", confidence |-> 440]
               /\ ClampedScores["neutral"] = 440
        /\ \A i \in DOMAIN categories :
               categories[i].score = 0 =>
                   classifyEmotion(Without(categories, i)) = result

\* a snapshot that lists a channel with score 0 beside a channel that moves
\* the result away from neutral
C8_Witness ==
    /\ pc = "classified"
    /\ \E i, j \in DOMAIN categories :
           categories[i].score = 0 /\ categories[j].score > 0
    /\ result.emotion # "neutral"

\* C9 (as claimed): a snapshot with a score outside [0, 1] is classified like
\* the snapshot in which that score is clamped into [0, 1], or like the one
\* in which it is replaced by 0.
C9_OutOfRangeIsNeutralised ==
    pc = "classified" =>
        \A i \in DOMAIN categories :
            LET v == categories[i].score
            IN  (v < 0 \/ v > 10) =>
                    \/ classifyEmotion(WithScore(categories, i, Clamped(v))) = result
                    \/ classifyEmotion(WithScore(categories, i, 0)) = result

SnapshotOf(a) ==
    [c \in {a[i].categoryName : i \in DOMAIN a} |->
        a[CHOOSE i \in DOMAIN a : a[i].categoryName = c].score]

\* the score of channel c in snapshot f, 0 when missing, in tenths
Channel(f, c) == IF c \in DOMAIN f THEN f[c] ELSE 0

\* twice the mean of channels a and b
TwiceMean(f, a, b) == Channel(f, a) + Channel(f, b)

\* twice the channel a
Twice(f, a) == Channel(f, a) + Channel(f, a)

\* weight (in tenths) times an aggregate (doubled, in tenths), in 1/400
Weighted(weight, aggregate) == (weight * aggregate * 400) \div 200

\* x clamped below at 0
AtLeastZero(x) == IF x > 0 THEN x ELSE 0

\* the six weighted sums of the design, clamped below at 0, in 1/400
ReferenceScores(f) ==
    LET smile       == TwiceMean(f, "mouthSmileLeft", "mouthSmileRight")
        frown       == TwiceMean(f, "mouthFrownLeft", "mouthFrownRight")
        dimple      == TwiceMean(f, "mouthDimpleLeft", "mouthDimpleRight")
        pucker      == Twice(f, "mouthPucker")
        jawOpen     == Twice(f, "jawOpen")
        browUp      == TwiceMean(f, "browOuterUpLeft", "browOuterUpRight")
        browInner   == Twice(f, "browInnerUp")
        browDown    == TwiceMean(f, "browDownLeft", "browDownRight")
        eyeWide     == TwiceMean(f, "eyeWideLeft", "eyeWideRight")
        cheekSquint == TwiceMean(f, "cheekSquintLeft", "cheekSquintRight")
        sneer       == TwiceMean(f, "noseSneerLeft", "noseSneerRight")
        mouthShrug  == TwiceMean(f, "mouthShrugUpper", "mouthShrugLower")
        eyeSquint   == TwiceMean(f, "eyeSquintLeft", "eyeSquintRight")
        eyeLookDown == TwiceMean(f, "eyeLookDownLeft", "eyeLookDownRight")
    IN  [ happy     |-> AtLeastZero(Weighted(15, smile) + Weighted(5, cheekSquint)),
          sad       |-> AtLeastZero(Weighted(14, frown) + Weighted(7, browInner)
                            + Weighted(2, 20 - dimple) + Weighted(2, 20 - pucker)),
          surprised |-> AtLeastZero(Weighted(14, jawOpen) + Weighted(10, eyeWide)
                            + Weighted(6, browUp) + Weighted(4, browInner)),
          angry     |-> AtLeastZero(Weighted(12, eyeSquint) + Weighted(10, mouthShrug)
                            + Weighted(7, eyeLookDown) + Weighted(5, browDown)
                            + Weighted(5, sneer) - Weighted(5, smile)),
          neutral   |-> AtLeastZero(440 - Weighted(10, smile + frown + jawOpen
                            + browUp + browDown + eyeWide + eyeSquint
                            + mouthShrug) \div 4),
          excited   |-> AtLeastZero(Weighted(10, smile) + Weighted(8, eyeWide)
                            + Weighted(6, browUp) + Weighted(4, jawOpen)) ]

\* every score of the categories array lies in [0, 1]
InRange == \A i \in DOMAIN categories :
               categories[i].score >= 0 /\ categories[i].score <= 10

\* C11: for a snapshot of scores in [0, 1] classifyEmotion returns an emotion
\* whose reference score (the design's weighted sum of the left/right means,
\* clamped below at 0) is the greatest, with confidence
\* min(winningScore / 1.5, 1); the smile of 0.9 gives happy, score 1.35,
\* confidence 0.9, and the surprise gives surprised, score 2.24, confidence 1.
C11_MatchesReference ==
    (pc = "classified" /\ InRange) =>
        LET reference == ReferenceScores(SnapshotOf(categories))
        IN  /\ result.emotion \in GreatestOf(reference)
            /\ result.confidence = Min(reference[result.emotion], ConfScale)
            /\ categories = CategoriesOf(SmileScenario, Len(ChannelOrder)) =>
                   /\ result = [emotion |-> "happy", confidence |-> 540]
                   /\ reference["happy"] = 540
            /\ categories = CategoriesOf(SurpriseScenario, Len(ChannelOrder)) =>
                   /\ result = [emotion |-> "surprised", confidence |-> 600]
                   /\ reference["surprised"] = 896

\* the surprise, classified
C11_Witness ==
    /\ pc = "classified"
    /\ categories = CategoriesOf(SurpriseScenario, Len(ChannelOrder))
    /\ result.emotion = "surprised"

\* the snapshot is empty or its channels all score 0
AllZero == \A i \in DOMAIN categories : categories[i].score = 0

\* C13 (as claimed): for the all-zero snapshot every emotion other than
\* neutral has clamped score 0, and neutral has 1.1.
C13_OnlyNeutralIsNonZero ==
    (pc = "classified" /\ AllZero) =>
        LET scores == ClampedScores
        IN  /\ scores["neutral"] = 440
            /\ \A e \in Emotions \ {"neutral"} : scores[e] = 0

\* C13 (amended): for the all-zero snapshot neutral has clamped score 1.1,
\* sad has 0.4 (the constants of (1.0 - dimple) * 0.2 and
\* (1.0 - pucker) * 0.2), and every other emotion has 0.
C13_NeutralAndSadAreNonZero ==
    (pc = "classified" /\ AllZero) =>
        LET scores == ClampedScores
        IN  /\ scores["neutral"] = 440
            /\ scores["sad"] = 160
            /\ \A e \in Emotions \ {"neutral", "sad"} : scores[e] = 0

\* the empty categories array, classified neutral
C13_Witness ==
    /\ pc = "classified"
    /\ categories = << >>
    /\ result.emotion = "neutral"

\* ------------------------------------------------- claims on the pipeline

\* the (emotion, confidence) results of the frames classified so far
RawResults == {classified[a].result : a \in DOMAIN classified}

\* C14 (as claimed): while the page shows a label, the percentage beside it
\* is the confidence of a classified frame whose raw emotion is that label.
C14_ConfidenceBelongsToLabel ==
    ui.pill # null =>
        \E r \in RawResults :
            /\ r.emotion = ui.name
            /\ Pct(r.confidence) = ui.pct

\* C17: between operations the display state is none when no observe was
\* made since the last reset or since the start, and otherwise it is the
\* dominant label the most recent observe computed, a label that occurs in
\* the history and that no label of the history outnumbers.
C17_DisplayTracksVote ==
    IF LastOp = "observe"
    THEN /\ currentEmotion = dominant
         /\ \E i \in DOMAIN emotionHistory : emotionHistory[i] = currentEmotion
         /\ \A e \in Emotions :
                Freq(emotionHistory, e) <= Freq(emotionHistory, currentEmotion)
    ELSE currentEmotion = null

\* an observe after a reset that displays a label other than the one observed
C17_Witness ==
    /\ ops = <<"reset", "observe">>
    /\ currentEmotion # null
    /\ currentEmotion # LastObserved

\* ----------------------------------------------- claims on the frame loop

\* C12: while webcamRunning is false, from the Stop click until a loadeddata
\* listener starts the camera again, no step observes or resets: the emotion
\* history and the display state stay as they are, and a predict callback
\* that was scheduled before the Stop click returns without requesting
\* another frame.
C12_StoppedLoopIsQuiet ==
    [][~webcamRunning =>
          /\ UNCHANGED <<emotionHistory, currentEmotion, observed, ops>>
          /\ tick' # tick =>
                 /\ tick'.did = "stopped"
                 /\ animationFrames' = animationFrames - 1]_vars

\* after frames were observed and the camera stopped, the callback that was
\* scheduled has run and no callback is left
C12_Witness ==
    /\ ~webcamRunning
    /\ observed # <<>>
    /\ tick.did = "stopped"
    /\ animationFrames = 0

C16_SingleFrameLoop == animationFrames <= 1

====
